---- MODULE Spec2Model ----
(***************************************************************************)
(* Model of src/utils/secureDownloads.ts: the secure download tokens, the  *)
(* verification pipeline of verifyDownloadToken, the audit log and the     *)
(* lifecycle operations, over the two datastore tables                     *)
(* secure_download_tokens and download_attempts.                           *)
(*                                                                         *)
(* Every await on the datastore is one step, so overlapping calls          *)
(* interleave between their select, their audit inserts and their update.  *)
(* A datastore request ends in one of three ways: "ok" (applied, no        *)
(* error), "error" (not applied, the response carries an error) or "throw" *)
(* (not applied, the await rejects).                                       *)
(*                                                                         *)
(* Spec     overlapping calls, requests may fail                           *)
(* SpecOk   overlapping calls, every request is performed                  *)
(* SpecSeq  calls one after another, every request is performed            *)
(* SpecAdmin the administrative operations beside one call, requests may  *)
(*          fail                                                           *)
(* SpecFrame every operation on several tokens, every request is performed *)
(* SpecBatch generateSecureDownloadTokens on several documents, requests   *)
(*          may fail                                                       *)
(* SpecRace three overlapping calls, every request is performed            *)
(***************************************************************************)
EXTENDS Integers, Sequences, FiniteSets, TLC

\* ------------------------------------------------------------------ bounds
MaxCalls == 2       \* verifyDownloadToken calls of one behaviour (all may overlap)
SeqCalls == 3       \* verifyDownloadToken calls of one sequential behaviour
MaxTokens == 1      \* rows of secure_download_tokens
MaxDocs == 1        \* rows of project_documents
MaxOrders == 1      \* order ids
MaxQuota == 2       \* largest max_downloads a caller configures
MaxNow == 2         \* the clock runs 0..MaxNow (hours)
MaxFaults == 1      \* datastore requests that fail in one behaviour
MaxRevokes == 1     \* revokeDownloadToken calls
MaxRequests == 1    \* requestNewDownloadLinks calls
AdminCalls == 1     \* verifyDownloadToken calls beside the administrative operations
FrameTokens == 2    \* rows of secure_download_tokens when several are generated
AdminRevokes == 2   \* revokeDownloadToken calls of such a behaviour
BatchDocs == 3      \* documents of one generateSecureDownloadTokens call
BatchFaults == 2    \* datastore requests that fail while generating
RaceCalls == 3      \* verifyDownloadToken calls racing on the count

\* ------------------------------------------------------------------ strings
\* An email is a sequence of characters; "A" is the one upper-case letter of
\* the alphabet and " " the one whitespace character.
\* The emails tokens are issued for, and the emails callers claim.
RecipientEmails == { <<"A", "b">>, <<" ", "b", "a">> }

AttemptedEmails == { <<" ", "a", "b", " ">>, <<"b", "a">> }

ToLowerCase(s) ==
    [i \in DOMAIN s |-> IF s[i] = "A" THEN "a" ELSE s[i]]

RECURSIVE TrimStart(_)
TrimStart(s) ==
    IF s # << >> /\ Head(s) = " " THEN TrimStart(Tail(s)) ELSE s

RECURSIVE TrimEnd(_)
TrimEnd(s) ==
    IF s # << >> /\ s[Len(s)] = " " THEN TrimEnd(SubSeq(s, 1, Len(s) - 1)) ELSE s

Trim(s) == TrimEnd(TrimStart(s))

\* email.toLowerCase().trim()
Normalize(s) == Trim(ToLowerCase(s))

\* encodeURIComponent: the whitespace character is escaped, letters are kept.
EncodeURIComponent(s) ==
    [i \in DOMAIN s |-> IF s[i] = " " THEN "%20" ELSE s[i]]

\* ------------------------------------------------------------------ values
Null == "null"
NullId == 0         \* token_id of an attempt that resolved no token
Outcomes == {"ok", "error", "throw"}

DocIds == 1..MaxDocs
OrderIds == 1..MaxOrders

DEFAULT_CONFIG == [expirationHours |-> 72, maxDownloads |-> 5]

\* The config overrides a caller passes (Partial<SecureDownloadConfig>).
Configs == {[expirationHours |-> 1, maxDownloads |-> m] : m \in 1..MaxQuota}

\* { ...DEFAULT_CONFIG, ...config }
FinalConfig(config) ==
    [k \in DOMAIN DEFAULT_CONFIG |->
        IF k \in DOMAIN config THEN config[k] ELSE DEFAULT_CONFIG[k]]

\* The failure_reason strings of the audit log.
ReasonInvalid == "Invalid or expired token"
ReasonExpired == "Token expired"
ReasonEmail == "Email mismatch"
ReasonQuota == "Download limit exceeded"
ReasonDocument == "Document not found"
ReasonSystem == "System error"

\* The outcome returned to the caller: valid, and which message it carries.
Result(valid, reason) == [valid |-> valid, reason |-> reason]

\* The failure_reason audited with each returned failure.
AuditReason(reason) ==
    CASE reason = "invalid_or_expired" -> ReasonInvalid
      [] reason = "expired" -> ReasonExpired
      [] reason = "email_mismatch" -> ReasonEmail
      [] reason = "quota_exceeded" -> ReasonQuota
      [] reason = "document_missing" -> ReasonDocument
      [] reason = "system_error" -> ReasonSystem
      [] OTHER -> Null

\* ------------------------------------------------------------------ state
VARIABLES
    tokens,      \* secure_download_tokens: sequence of rows, id = index
    attempts,    \* download_attempts: sequence of rows, in insertion order
    documents,   \* project_documents: the ids that exist
    now,         \* the clock
    calls,       \* verifyDownloadToken calls, in the order they began
    generated,   \* generateSecureDownloadTokens calls: arguments and return
    revokes,     \* revokeDownloadToken calls: argument and return
    requests,    \* requestNewDownloadLinks calls: arguments and return
    faults       \* datastore requests that have failed

vars == <<tokens, attempts, documents, now, calls, generated, revokes, requests, faults>>

TokenIds == 1..Len(tokens)

\* A failing outcome is possible while the fault budget lasts.
MayFail(o) == o = "ok" \/ faults < MaxFaults

Fault(o) == IF o = "ok" THEN 0 ELSE 1

Init ==
    /\ tokens = << >>
    /\ attempts = << >>
    /\ documents = DocIds
    /\ now = 0
    /\ calls = << >>
    /\ generated = << >>
    /\ revokes = << >>
    /\ requests = << >>
    /\ faults = 0

\* ------------------------------------------------ generateSecureDownloadTokens
\* The lists of documents a caller passes.
DocLists(ids, limit) == UNION {[1..n -> ids] : n \in 1..limit}

\* The row the insert stores (both the server-token and the fallback path).
NewToken(id, token, documentId, recipientEmail, orderId, expiresAt, finalConfig) ==
    [id |-> id,
     token |-> token,
     document_id |-> documentId,
     recipient_email |-> Normalize(recipientEmail),
     order_id |-> orderId,
     expires_at |-> expiresAt,
     max_downloads |-> finalConfig.maxDownloads,
     download_count |-> 0,
     is_active |-> TRUE]

SecureUrl(documentId, token, recipientEmail, expiresAt) ==
    [documentId |-> documentId,
     secureUrl |-> [token |-> token, email |-> EncodeURIComponent(recipientEmail)],
     expiresAt |-> expiresAt]

\* Mutant: a refused insert ends the loop's work: the urls pushed so far are
\* dropped.
GenerateOneOrNone(acc, documentId, recipientEmail, orderId, expiresAt, finalConfig, rpc, ins) ==
    IF rpc = "throw" \/ ins # "ok"
    THEN [acc EXCEPT !.secureUrls = << >>, !.failed = @ + Fault(rpc) + Fault(ins)]
    ELSE LET id == Len(acc.tokens) + 1
             token == [src |-> IF rpc = "error" THEN "client" ELSE "server", n |-> id]
         IN [tokens |-> Append(acc.tokens,
                        NewToken(id, token, documentId, recipientEmail, orderId,
                                 expiresAt, finalConfig)),
             secureUrls |-> Append(acc.secureUrls,
                        SecureUrl(documentId, token, recipientEmail, expiresAt)),
             failed |-> acc.failed + Fault(rpc)]

\* One iteration of the loop over the documents.  rpc is how the
\* generate_secure_token call ended, ins how the insert ended; acc holds the
\* table, the urls pushed so far and the failed requests.
GenerateOne(acc, documentId, recipientEmail, orderId, expiresAt, finalConfig, rpc, ins) ==
    IF rpc = "throw"
    THEN [acc EXCEPT !.failed = @ + 1]
    ELSE LET id == Len(acc.tokens) + 1
             token == [src |-> IF rpc = "error" THEN "client" ELSE "server", n |-> id]
             row == NewToken(id, token, documentId, recipientEmail, orderId,
                             expiresAt, finalConfig)
             f == Fault(rpc) + Fault(ins)
         IN IF ins = "ok"
            THEN [tokens |-> Append(acc.tokens, row),
                  secureUrls |-> Append(acc.secureUrls,
                        SecureUrl(documentId, token, recipientEmail, expiresAt)),
                  failed |-> acc.failed + f]
            ELSE [acc EXCEPT !.failed = @ + f]

RECURSIVE GenerateLoop(_, _, _, _, _, _, _, _, _)
GenerateLoop(acc, docs, i, recipientEmail, orderId, expiresAt, finalConfig, rpcs, inss) ==
    IF i > Len(docs)
    THEN acc
    ELSE GenerateLoop(
            GenerateOne(acc, docs[i], recipientEmail, orderId, expiresAt,
                        finalConfig, rpcs[i], inss[i]),
            docs, i + 1, recipientEmail, orderId, expiresAt, finalConfig, rpcs, inss)

\* The documents whose iteration threw or whose insert was refused (not an
\* argument or a return value: what the datastore did to the call).
Rejected(docs, rpcs, inss) ==
    {i \in DOMAIN docs : rpcs[i] = "throw" \/ inss[i] # "ok"}

\* limit bounds the rows of the table, budget the failed requests.
GenerateSecureDownloadTokens(limit, budget, docs, recipientEmail, orderId, config, rpcs, inss) ==
    LET finalConfig == FinalConfig(config)
        expiresAt == now + finalConfig.expirationHours
        out == GenerateLoop([tokens |-> tokens, secureUrls |-> << >>, failed |-> 0],
                            docs, 1, recipientEmail, orderId, expiresAt,
                            finalConfig, rpcs, inss)
    IN /\ Len(tokens) + Len(docs) <= limit
       /\ \A i \in DOMAIN docs : rpcs[i] = "throw" => inss[i] = "ok"
       /\ faults + out.failed <= budget
       /\ tokens' = out.tokens
       /\ faults' = faults + out.failed
       /\ generated' = Append(generated,
              [documents |-> docs, recipientEmail |-> recipientEmail,
               orderId |-> orderId, secureUrls |-> out.secureUrls,
               rejected |-> Rejected(docs, rpcs, inss)])
       /\ UNCHANGED <<attempts, documents, now, calls, revokes, requests>>

\* --------------------------------------------------------- verifyDownloadToken
\* The token strings a caller may present: those issued, and one never issued.
BogusToken == [src |-> "none", n |-> NullId]

TokenStrings == {tokens[i].token : i \in TokenIds} \cup {BogusToken}

NoTokenData == [id |-> NullId]

\* The select: the row joined with its document (null when the document is gone).
Joined(row) ==
    [id |-> row.id,
     token |-> row.token,
     document_id |-> row.document_id,
     recipient_email |-> row.recipient_email,
     order_id |-> row.order_id,
     expires_at |-> row.expires_at,
     max_downloads |-> row.max_downloads,
     download_count |-> row.download_count,
     is_active |-> row.is_active,
     project_documents |->
        IF row.document_id \in documents THEN row.document_id ELSE NullId]

\* Mutant: the select without the is_active filter.
MatchingAnyState(token) == {i \in TokenIds : tokens[i].token = token}

\* .eq('token', token).eq('is_active', true)
Matching(token) ==
    {i \in TokenIds : tokens[i].token = token /\ tokens[i].is_active}

\* Mutant: the claimed email compared as given.
AttemptedEmailAsGiven(attemptedEmail) == attemptedEmail

\* const normalizedAttemptedEmail = attemptedEmail.toLowerCase().trim()
NormalizedAttemptedEmail(attemptedEmail) == Normalize(attemptedEmail)

\* if (now > expiresAt)
IsExpired(tokenData, time) == time > tokenData.expires_at

\* if (normalizedTokenEmail !== normalizedAttemptedEmail)
EmailMismatch(tokenData, normalizedAttemptedEmail) ==
    Normalize(tokenData.recipient_email) # normalizedAttemptedEmail

\* Mutant: the quota check off by one.
QuotaExceededStrict(tokenData) == tokenData.download_count > tokenData.max_downloads

\* if (tokenData.download_count >= tokenData.max_downloads)
QuotaExceeded(tokenData) == tokenData.download_count >= tokenData.max_downloads

\* if (!tokenData.project_documents)
DocumentMissing(tokenData) == tokenData.project_documents = NullId

\* Mutant: the email check ahead of the expiration check.
ChecksEmailFirst(tokenData, normalizedAttemptedEmail, time) ==
    IF EmailMismatch(tokenData, normalizedAttemptedEmail) THEN "email_mismatch"
    ELSE IF IsExpired(tokenData, time) THEN "expired"
    ELSE IF QuotaExceeded(tokenData) THEN "quota_exceeded"
    ELSE IF DocumentMissing(tokenData) THEN "document_missing"
    ELSE "valid"

\* Mutant: the quota check ahead of the email check.
ChecksQuotaFirst(tokenData, normalizedAttemptedEmail, time) ==
    IF IsExpired(tokenData, time) THEN "expired"
    ELSE IF QuotaExceeded(tokenData) THEN "quota_exceeded"
    ELSE IF EmailMismatch(tokenData, normalizedAttemptedEmail) THEN "email_mismatch"
    ELSE IF DocumentMissing(tokenData) THEN "document_missing"
    ELSE "valid"

\* The checks on a resolved token, in the order of the code; the first that
\* fails names the outcome, "valid" when none does.
Checks(tokenData, normalizedAttemptedEmail, time) ==
    IF IsExpired(tokenData, time) THEN "expired"
    ELSE IF EmailMismatch(tokenData, normalizedAttemptedEmail) THEN "email_mismatch"
    ELSE IF QuotaExceeded(tokenData) THEN "quota_exceeded"
    ELSE IF DocumentMissing(tokenData) THEN "document_missing"
    ELSE "valid"

\* The arguments of a pending logDownloadAttempt call.
LogArgs(tokenId, success, failureReason) ==
    [token_id |-> tokenId, success |-> success, failure_reason |-> failureReason]

\* A call that has decided what to log, where it goes after logging and what
\* it returns if nothing throws before it gets there.
\* now is the time read for the expiration check (0 when no token was resolved),
\* updateError whether the count update's response carried an error.
Call(token, attemptedEmail, tokenData, time, log, next, result) ==
    [token |-> token, attemptedEmail |-> attemptedEmail, tokenData |-> tokenData,
     now |-> time, pc |-> "log", log |-> log, next |-> next, result |-> result,
     updateError |-> FALSE]

\* Mutant: the catch block logs a system error and the call returns what it
\* had decided.
CaughtKeepsResult(call) ==
    [call EXCEPT !.pc = "log",
                 !.log = LogArgs(NullId, FALSE, ReasonSystem),
                 !.next = "done"]

\* The catch block: log a system error, return the generic failure.
Caught(call) ==
    [call EXCEPT !.pc = "log",
                 !.log = LogArgs(NullId, FALSE, ReasonSystem),
                 !.next = "done",
                 !.result = Result(FALSE, "system_error")]

\* What the call does between the select and the first logDownloadAttempt.
AfterLookup(token, attemptedEmail, tokenData) ==
    LET verdict == Checks(tokenData, NormalizedAttemptedEmail(attemptedEmail), now)
    IN Call(token, attemptedEmail, tokenData, now,
            LogArgs(tokenData.id, verdict = "valid",
                    IF verdict = "valid" THEN Null ELSE AuditReason(verdict)),
            CASE verdict = "expired" -> "deactivate"
              [] verdict = "valid" -> "increment"
              [] OTHER -> "done",
            Result(verdict = "valid", verdict))

NotFound(token, attemptedEmail) ==
    Call(token, attemptedEmail, NoTokenData, 0,
         LogArgs(NullId, FALSE, ReasonInvalid), "done",
         Result(FALSE, "invalid_or_expired"))

\* The call begins: the select on secure_download_tokens and every check up
\* to the first await after it.
Lookup(limit, token, attemptedEmail, o) ==
    /\ Len(calls) < limit
    /\ MayFail(o)
    /\ calls' = Append(calls,
          IF o = "throw"
          THEN Caught(NotFound(token, attemptedEmail))
          ELSE IF o = "error" \/ Cardinality(Matching(token)) # 1
          THEN NotFound(token, attemptedEmail)
          ELSE AfterLookup(token, attemptedEmail,
                           Joined(tokens[CHOOSE i \in Matching(token) : TRUE])))
    /\ faults' = faults + Fault(o)
    /\ UNCHANGED <<tokens, attempts, documents, now, generated, revokes, requests>>

\* The row logDownloadAttempt inserts; by names the writer (not a column).
Attempt(by, args, attemptedEmail) ==
    [token_id |-> args.token_id,
     attempted_email |-> Normalize(attemptedEmail),
     success |-> args.success,
     failure_reason |-> args.failure_reason,
     by |-> by]

\* Mutant: a throwing insert reaches the caller's catch block.
ContinuedOrCaught(call, o) ==
    IF o = "throw" THEN Caught(call) ELSE [call EXCEPT !.pc = call.next]

\* The caller after logDownloadAttempt returned: it goes on where it meant to,
\* however the insert ended.
Continued(call, o) == [call EXCEPT !.pc = call.next]

\* logDownloadAttempt: the insert; an error or a throw is swallowed.
LogDownloadAttempt(c, o) ==
    /\ c \in DOMAIN calls
    /\ calls[c].pc = "log"
    /\ MayFail(o)
    /\ attempts' =
          IF o = "ok"
          THEN Append(attempts,
                      Attempt(c, calls[c].log,
                              NormalizedAttemptedEmail(calls[c].attemptedEmail)))
          ELSE attempts
    /\ calls' = [calls EXCEPT ![c] = Continued(@, o)]
    /\ faults' = faults + Fault(o)
    /\ UNCHANGED <<tokens, documents, now, generated, revokes, requests>>

\* Mutant: the update that leaves is_active as it was.
DeactivatedNot(row) == row

\* Mutant: the update flips is_active.
DeactivatedToggle(row) == [row EXCEPT !.is_active = ~@]

\* Mutant: the update also closes the quota.
DeactivatedAndClosed(row) ==
    [row EXCEPT !.is_active = FALSE, !.max_downloads = row.download_count]

\* { is_active: false, updated_at: ... }
Deactivated(row) == [row EXCEPT !.is_active = FALSE]

\* update({ is_active: false }).eq('id', tokenData.id); the response is not read.
Deactivate(c, o) ==
    /\ c \in DOMAIN calls
    /\ calls[c].pc = "deactivate"
    /\ MayFail(o)
    /\ tokens' =
          IF o = "ok"
          THEN [tokens EXCEPT ![calls[c].tokenData.id] = Deactivated(@)]
          ELSE tokens
    /\ calls' = [calls EXCEPT ![c] =
          IF o = "throw" THEN Caught(@) ELSE [@ EXCEPT !.pc = "done"]]
    /\ faults' = faults + Fault(o)
    /\ UNCHANGED <<attempts, documents, now, generated, revokes, requests>>

\* Mutant: the datastore adds one to the count it holds.
NewDownloadCountOfStored(tokenData, stored) == stored + 1

\* The value the update writes: the count read by the select, plus one.
NewDownloadCount(tokenData, stored) == tokenData.download_count + 1

\* update({ download_count: tokenData.download_count + 1 }).eq('id', tokenData.id);
\* an error in the response is reported and the call goes on.
Increment(c, o) ==
    /\ c \in DOMAIN calls
    /\ calls[c].pc = "increment"
    /\ MayFail(o)
    /\ tokens' =
          IF o = "ok"
          THEN [tokens EXCEPT ![calls[c].tokenData.id].download_count =
                    NewDownloadCount(calls[c].tokenData, @)]
          ELSE tokens
    /\ calls' = [calls EXCEPT ![c] =
          IF o = "throw"
          THEN Caught(@)
          ELSE [@ EXCEPT !.pc = "done", !.updateError = (o = "error")]]
    /\ faults' = faults + Fault(o)
    /\ UNCHANGED <<attempts, documents, now, generated, revokes, requests>>

\* ------------------------------------------------------- lifecycle operations
\* Mutant: the update that flips is_active.
RevokedToggle(row) == [row EXCEPT !.is_active = ~@]

\* { is_active: false, updated_at: ... }
Revoked(row) == [row EXCEPT !.is_active = FALSE]

\* revokeDownloadToken: one update by id; returns !error, false when it throws.
RevokeDownloadToken(limit, tokenId, o) ==
    /\ Len(revokes) < limit
    /\ MayFail(o)
    /\ tokens' =
          IF o = "ok" /\ tokenId \in TokenIds
          THEN [tokens EXCEPT ![tokenId] = Revoked(@)]
          ELSE tokens
    /\ revokes' = Append(revokes, [tokenId |-> tokenId, returned |-> o = "ok"])
    /\ faults' = faults + Fault(o)
    /\ UNCHANGED <<attempts, documents, now, calls, generated, requests>>

\* Mutant: the row carries the email as the caller gave it.
LinksRequestedAsGiven(orderId, recipientEmail) ==
    [token_id |-> NullId,
     attempted_email |-> recipientEmail,
     success |-> FALSE,
     failure_reason |-> "New download links requested for order " \o ToString(orderId),
     by |-> NullId]

\* The row requestNewDownloadLinks inserts.
LinksRequested(orderId, recipientEmail) ==
    [token_id |-> NullId,
     attempted_email |-> Normalize(recipientEmail),
     success |-> FALSE,
     failure_reason |-> "New download links requested for order " \o ToString(orderId),
     by |-> NullId]

\* requestNewDownloadLinks: one insert into download_attempts whose response is
\* not read; returns true unless the insert throws.
RequestNewDownloadLinks(limit, orderId, recipientEmail, o) ==
    /\ Len(requests) < limit
    /\ MayFail(o)
    /\ attempts' =
          IF o = "ok"
          THEN Append(attempts, LinksRequested(orderId, recipientEmail))
          ELSE attempts
    /\ requests' = Append(requests,
          [orderId |-> orderId, recipientEmail |-> recipientEmail,
           returned |-> o # "throw"])
    /\ faults' = faults + Fault(o)
    /\ UNCHANGED <<tokens, documents, now, calls, generated, revokes>>

\* ---------------------------------------------------------------- environment
\* Time passes.
Tick ==
    /\ now < MaxNow
    /\ now' = now + 1
    /\ UNCHANGED <<tokens, attempts, documents, calls, generated, revokes, requests, faults>>

\* A document is removed from project_documents.
DeleteDocument(d) ==
    /\ d \in documents
    /\ documents' = documents \ {d}
    /\ UNCHANGED <<tokens, attempts, now, calls, generated, revokes, requests, faults>>

\* -------------------------------------------------------------- specifications
\* Each operation with its inputs; O is the set of ways a datastore request
\* may end.
GenerateFrom(O, lists, limit, budget) ==
    \E docs \in lists, recipientEmail \in RecipientEmails,
       orderId \in OrderIds, config \in Configs :
        \E rpcs \in [DOMAIN docs -> O], inss \in [DOMAIN docs -> O] :
            GenerateSecureDownloadTokens(limit, budget, docs, recipientEmail, orderId,
                                         config, rpcs, inss)

Generate(O) == GenerateFrom(O, DocLists(DocIds, MaxTokens), MaxTokens, MaxFaults)

Begin(O, limit) ==
    \E token \in TokenStrings, attemptedEmail \in AttemptedEmails, o \in O :
        Lookup(limit, token, attemptedEmail, o)

Log(O) == \E c \in DOMAIN calls, o \in O : LogDownloadAttempt(c, o)

Expire(O) == \E c \in DOMAIN calls, o \in O : Deactivate(c, o)

Count(O) == \E c \in DOMAIN calls, o \in O : Increment(c, o)

RevokeUpTo(O, limit) ==
    \E tokenId \in TokenIds, o \in O : RevokeDownloadToken(limit, tokenId, o)

Revoke(O) == RevokeUpTo(O, MaxRevokes)

Request(O) ==
    \E orderId \in OrderIds, recipientEmail \in AttemptedEmails, o \in O :
        RequestNewDownloadLinks(MaxRequests, orderId, recipientEmail, o)

Remove == \E d \in DocIds : DeleteDocument(d)

AllReturned == \A c \in DOMAIN calls : calls[c].pc = "done"

\* Verification calls that may overlap, with a datastore whose requests may fail.
Next ==
    \/ Generate(Outcomes)
    \/ Begin(Outcomes, MaxCalls)
    \/ Log(Outcomes)
    \/ Expire(Outcomes)
    \/ Count(Outcomes)
    \/ Revoke(Outcomes)
    \/ Remove
    \/ Tick

Spec == Init /\ [][Next]_vars

\* Verification calls that may overlap, with a datastore that performs every
\* request.
NextOk ==
    \/ Generate({"ok"})
    \/ Begin({"ok"}, MaxCalls)
    \/ Log({"ok"})
    \/ Expire({"ok"})
    \/ Count({"ok"})
    \/ Revoke({"ok"})
    \/ Request({"ok"})
    \/ Remove
    \/ Tick

SpecOk == Init /\ [][NextOk]_vars

\* Verification calls one after another, with a datastore that performs every
\* request.
NextSeq ==
    \/ Generate({"ok"})
    \/ AllReturned /\ Begin({"ok"}, SeqCalls)
    \/ Log({"ok"})
    \/ Expire({"ok"})
    \/ Count({"ok"})
    \/ Revoke({"ok"})
    \/ Remove
    \/ Tick

SpecSeq == Init /\ [][NextSeq]_vars

\* The administrative operations beside one verification call, with a datastore
\* whose requests may fail.
NextAdmin ==
    \/ Generate(Outcomes)
    \/ Begin(Outcomes, AdminCalls)
    \/ Log(Outcomes)
    \/ Expire(Outcomes)
    \/ Count(Outcomes)
    \/ RevokeUpTo(Outcomes, AdminRevokes)
    \/ Request(Outcomes)
    \/ Remove
    \/ Tick

SpecAdmin == Init /\ [][NextAdmin]_vars

\* Every operation of the module on several tokens, with a datastore that
\* performs every request.
NextFrame ==
    \/ GenerateFrom({"ok"}, DocLists(DocIds, FrameTokens), FrameTokens, MaxFaults)
    \/ Begin({"ok"}, AdminCalls)
    \/ Log({"ok"})
    \/ Expire({"ok"})
    \/ Count({"ok"})
    \/ RevokeUpTo({"ok"}, AdminRevokes)
    \/ Request({"ok"})
    \/ Remove
    \/ Tick

SpecFrame == Init /\ [][NextFrame]_vars

\* generateSecureDownloadTokens alone, on lists of up to BatchDocs documents,
\* with a datastore whose requests may fail.
Batches == {[i \in 1..n |-> i] : n \in 1..BatchDocs}

NextBatch == GenerateFrom(Outcomes, Batches, BatchDocs, BatchFaults)

SpecBatch == Init /\ [][NextBatch]_vars

\* Up to RaceCalls overlapping verification calls on the same tokens, with a
\* datastore that performs every request.
NextRace ==
    \/ Generate({"ok"})
    \/ Begin({"ok"}, RaceCalls)
    \/ Log({"ok"})
    \/ Expire({"ok"})
    \/ Count({"ok"})
    \/ Tick

SpecRace == Init /\ [][NextRace]_vars

\* ---------------------------------------------------------------------- claims
CallIds == DOMAIN calls

Returned(c) == calls[c].pc = "done"

\* The call's select resolved a token.
Resolved(c) == calls[c].tokenData.id # NullId

\* The audit rows a call has appended.
AttemptsBy(c) == {i \in DOMAIN attempts : attempts[i].by = c}

\* The calls that have returned valid for token t.
ValidCalls(t) ==
    {c \in CallIds :
        Returned(c) /\ calls[c].result.valid /\ calls[c].tokenData.id = t}

\* C1: in every reachable state every token has
\* 0 <= download_count <= max_downloads, whatever the interleaving of the
\* selects, audit inserts and count updates of overlapping calls.
C1_CountWithinQuota ==
    \A t \in TokenIds :
        /\ 0 <= tokens[t].download_count
        /\ tokens[t].download_count <= tokens[t].max_downloads

\* Two calls that read the same count have both written it, and the token is
\* at its quota.
C1_Witness ==
    \E t \in TokenIds : \E c1, c2 \in ValidCalls(t) :
        /\ c1 # c2
        /\ calls[c1].tokenData.download_count = calls[c2].tokenData.download_count
        /\ ~calls[c1].updateError /\ ~calls[c2].updateError
        /\ tokens[t].download_count = tokens[t].max_downloads

\* C2: the number of calls that return valid for a token never exceeds its
\* max_downloads (with max_downloads = 1: one call returns valid and the others
\* fail with quota_exceeded), here with every datastore request performed.
C2_ValidWithinQuota ==
    faults = 0 =>
        \A t \in TokenIds : Cardinality(ValidCalls(t)) <= tokens[t].max_downloads

\* C3: a call returns valid only if its own update raised download_count by
\* one from a value below max_downloads.
C3_ValidOnlyIfIncremented ==
    [][\A c \in CallIds :
          (calls[c].pc = "increment" /\ calls'[c].pc = "done"
             /\ calls'[c].result.valid)
          => LET t == calls[c].tokenData.id
             IN /\ tokens[t].download_count < tokens[t].max_downloads
                /\ tokens'[t].download_count = tokens[t].download_count + 1]_vars

\* C4 (never two): a call that has returned has appended at most one
\* download_attempts row.
C4_NeverTwoAttempts ==
    \A c \in CallIds : Returned(c) => Cardinality(AttemptsBy(c)) <= 1

\* The claimed email of call c after lower-casing and trimming.
ClaimedEmail(c) == Normalize(calls[c].attemptedEmail)

\* The checks call c made on the row it read, each on its own.
ExpiredAtCheck(c) == calls[c].now > calls[c].tokenData.expires_at

WrongEmail(c) == ClaimedEmail(c) # Normalize(calls[c].tokenData.recipient_email)

QuotaUsed(c) ==
    calls[c].tokenData.download_count >= calls[c].tokenData.max_downloads

NoDocument(c) == calls[c].tokenData.project_documents = NullId

\* The outcome of the first check of call c that fails, in the order lookup,
\* expiration, email, quota, document.
FirstFailing(c) ==
    CASE ~Resolved(c) -> "invalid_or_expired"
      [] Resolved(c) /\ ExpiredAtCheck(c) -> "expired"
      [] Resolved(c) /\ ~ExpiredAtCheck(c) /\ WrongEmail(c) -> "email_mismatch"
      [] Resolved(c) /\ ~ExpiredAtCheck(c) /\ ~WrongEmail(c) /\ QuotaUsed(c)
            -> "quota_exceeded"
      [] Resolved(c) /\ ~ExpiredAtCheck(c) /\ ~WrongEmail(c) /\ ~QuotaUsed(c)
            /\ NoDocument(c) -> "document_missing"
      [] OTHER -> "valid"

\* C5: the reason a call returns is that of the first failing check in the
\* order lookup, expiration, email, quota, document, and the call has audited
\* that reason and no other: one row, carrying it.
C5_FirstFailingCheckWins ==
    \A c \in CallIds :
        Returned(c) =>
            /\ calls[c].result.reason = FirstFailing(c)
            /\ calls[c].result.valid = (FirstFailing(c) = "valid")
            /\ Cardinality(AttemptsBy(c)) = 1
            /\ \A i \in AttemptsBy(c) :
                  /\ attempts[i].success = calls[c].result.valid
                  /\ attempts[i].failure_reason = AuditReason(FirstFailing(c))

\* A call has returned expired on a token that was also presented with the
\* wrong email and had used its quota.
C5_Witness ==
    \E c \in CallIds :
        /\ Returned(c) /\ Resolved(c)
        /\ ExpiredAtCheck(c) /\ WrongEmail(c) /\ QuotaUsed(c)
        /\ calls[c].result.reason = "expired"

\* The valid calls on token t that began before call c.
ValidBefore(t, c) == {b \in ValidCalls(t) : b < c}

\* C6: when calls run one after another and every datastore request is
\* performed, each call with the correct email on a usable token reads a count
\* equal to the number of earlier successes, succeeds while that number is
\* below max_downloads and fails with quota_exceeded from then on; once every
\* call has returned, download_count is the number of successes.
C6_SequentialQuota ==
    \A t \in TokenIds :
        /\ AllReturned => tokens[t].download_count = Cardinality(ValidCalls(t))
        /\ Cardinality(ValidCalls(t)) <= tokens[t].max_downloads
        /\ \A c \in CallIds :
              (/\ Returned(c) /\ calls[c].tokenData.id = t
               /\ ~ExpiredAtCheck(c) /\ ~WrongEmail(c) /\ ~NoDocument(c))
              => /\ calls[c].tokenData.download_count
                        = Cardinality(ValidBefore(t, c))
                 /\ IF Cardinality(ValidBefore(t, c)) < tokens[t].max_downloads
                    THEN calls[c].result.valid
                    ELSE calls[c].result.reason = "quota_exceeded"

\* max_downloads = 2: two calls have succeeded, the count is 2 and the third
\* call has failed with quota_exceeded.
C6_Witness ==
    \E t \in TokenIds :
        /\ tokens[t].max_downloads = 2
        /\ tokens[t].download_count = 2
        /\ Cardinality(ValidCalls(t)) = 2
        /\ \E c \in CallIds :
              /\ Returned(c) /\ calls[c].tokenData.id = t
              /\ calls[c].result.reason = "quota_exceeded"

\* An active row holds the token string.
ActiveToken(token) ==
    \E i \in TokenIds : tokens[i].token = token /\ tokens[i].is_active

\* The call that begins in this step.
Begun == calls'[Len(calls')]

\* C7: a call that resolves a token whose expires_at is in the past fails with
\* expired; once it has returned the token is inactive, and a call on the same
\* token that begins after it has returned fails with invalid_or_expired.
C7_ExpiredThenInactive ==
    /\ [](\A c \in CallIds :
            (Resolved(c) /\ ExpiredAtCheck(c))
            => /\ calls[c].result.reason = "expired"
               /\ Returned(c) => ~tokens[calls[c].tokenData.id].is_active)
    /\ [][Len(calls') > Len(calls)
          => ((\E c \in CallIds :
                  /\ Returned(c) /\ Resolved(c) /\ ExpiredAtCheck(c)
                  /\ calls[c].token = Begun.token)
              => Begun.result.reason = "invalid_or_expired")]_vars

\* With no revocation, a call has returned expired and a later call on the
\* same token has returned invalid_or_expired.
C7_Witness ==
    /\ revokes = << >>
    /\ \E c1, c2 \in CallIds :
          /\ c1 < c2 /\ Returned(c1) /\ Returned(c2)
          /\ calls[c1].result.reason = "expired"
          /\ calls[c2].token = calls[c1].token
          /\ calls[c2].result.reason = "invalid_or_expired"
          /\ ~tokens[calls[c1].tokenData.id].is_active

\* C8: a call whose token string matches no active token fails with
\* invalid_or_expired, appends one audit row, whose token_id is null, and no
\* step of it changes the tokens table.
C8_UnknownToken ==
    /\ [](\A c \in CallIds :
            ~Resolved(c)
            => /\ calls[c].result.reason = "invalid_or_expired"
               /\ Returned(c)
                    => /\ Cardinality(AttemptsBy(c)) = 1
                       /\ \A i \in AttemptsBy(c) :
                             /\ attempts[i].token_id = NullId
                             /\ ~attempts[i].success)
    /\ [][/\ (Len(calls') > Len(calls) /\ ~ActiveToken(Begun.token))
               => (Begun.tokenData = NoTokenData /\ tokens' = tokens)
          /\ \A c \in CallIds :
               (~Resolved(c) /\ calls'[c] # calls[c]) => tokens' = tokens]_vars

\* Calls with a string never issued and with the string of a token no longer
\* active have returned.
C8_Witness ==
    /\ \E c \in CallIds :
          Returned(c) /\ calls[c].token = BogusToken /\ AttemptsBy(c) # {}
    /\ \E c \in CallIds :
          /\ Returned(c) /\ ~Resolved(c) /\ AttemptsBy(c) # {}
          /\ \E t \in TokenIds : tokens[t].token = calls[c].token

\* The step is one of call c (its beginning included).
StepOf(c) == c \notin DOMAIN calls \/ calls'[c] # calls[c]

\* C9: a call that resolves an unexpired token with a claimed email that
\* differs from the bound one after normalization fails with email_mismatch,
\* whatever the token's download_count; and no step of a call that ends in a
\* failure changes the download_count of any token.
C9_MismatchLeavesCount ==
    /\ [](\A c \in CallIds :
            (Resolved(c) /\ ~ExpiredAtCheck(c) /\ WrongEmail(c))
            => calls[c].result.reason = "email_mismatch")
    /\ [][\A c \in DOMAIN calls' :
            (StepOf(c) /\ ~calls'[c].result.valid)
            => /\ Len(tokens') = Len(tokens)
               /\ \A t \in TokenIds :
                    tokens'[t].download_count = tokens[t].download_count]_vars

\* A call has failed with email_mismatch on a token that had been downloaded.
C9_Witness ==
    \E c \in CallIds :
        /\ Returned(c) /\ calls[c].result.reason = "email_mismatch"
        /\ calls[c].tokenData.download_count > 0
        /\ tokens[calls[c].tokenData.id].download_count
              = calls[c].tokenData.download_count

\* The email generateSecureDownloadTokens was called with when it issued the
\* token string.
IssuedFor(token) ==
    LET g == CHOOSE g \in DOMAIN generated :
                \E u \in DOMAIN generated[g].secureUrls :
                    generated[g].secureUrls[u].secureUrl.token = token
    IN generated[g].recipientEmail

\* C10: a call that reaches the email check passes it if and only if the
\* claimed email and the email the token was generated for are equal after
\* lower-casing and trimming.
C10_EmailNormalized ==
    \A c \in CallIds :
        (Resolved(c) /\ ~ExpiredAtCheck(c))
        => ((calls[c].result.reason # "email_mismatch")
              <=> (Normalize(calls[c].attemptedEmail)
                      = Normalize(IssuedFor(calls[c].token))))

\* A call has returned valid with a claimed email that differs from the
\* recipient's in case and surrounding whitespace.
C10_Witness ==
    \E c \in CallIds :
        /\ Returned(c) /\ calls[c].result.valid
        /\ calls[c].attemptedEmail # IssuedFor(calls[c].token)
        /\ calls[c].attemptedEmail # ToLowerCase(IssuedFor(calls[c].token))
        /\ calls[c].attemptedEmail # Normalize(calls[c].attemptedEmail)

\* The revokeDownloadToken call that returns in this step.
RevokeReturns == Len(revokes') = Len(revokes) + 1

LastRevoke == revokes'[Len(revokes')]

\* Row new differs from row old in is_active at most.
SameButActive(old, new) == [new EXCEPT !.is_active = old.is_active] = old

\* C11: revokeDownloadToken is idempotent.  Whenever the datastore performs
\* its update the call returns true, whether or not the token was revoked
\* before; after a call that returned true the token's is_active is false, and
\* stays false; and no revokeDownloadToken call changes download_count or any
\* field of any row other than is_active, or the number of rows.
C11_RevokeIdempotent ==
    /\ [](\A r \in DOMAIN revokes :
            revokes[r].returned => ~tokens[revokes[r].tokenId].is_active)
    /\ [][RevokeReturns =>
            /\ faults' = faults => LastRevoke.returned
            /\ LastRevoke.returned => ~tokens'[LastRevoke.tokenId].is_active
            /\ Len(tokens') = Len(tokens)
            /\ \A t \in TokenIds : SameButActive(tokens[t], tokens'[t])]_vars

\* Two calls on the same token have both returned true; the token had been
\* downloaded once before.
C11_Witness ==
    /\ Len(revokes) = 2
    /\ revokes[1].tokenId = revokes[2].tokenId
    /\ revokes[1].returned /\ revokes[2].returned
    /\ tokens[revokes[1].tokenId].download_count = 1
    /\ ~tokens[revokes[1].tokenId].is_active

\* The documents of a generateSecureDownloadTokens call that were not rejected,
\* in the order the caller gave them.
Accepted(call) ==
    LET kept == SelectSeq([i \in DOMAIN call.documents |-> i],
                          LAMBDA i : i \notin call.rejected)
    IN [k \in DOMAIN kept |-> call.documents[kept[k]]]

\* The urls, over all calls, that carry the token string of row t.
UrlsOf(t) ==
    UNION {{<<g, k>> : k \in {k \in DOMAIN generated[g].secureUrls :
                generated[g].secureUrls[k].secureUrl.token = tokens[t].token}} :
           g \in DOMAIN generated}

\* C12: every generateSecureDownloadTokens call returns (it is recorded with its
\* return value) exactly one url for each document that was not rejected, in
\* the caller's order, and none for a rejected one, wherever in the list the
\* rejected documents are; each url names a stored row of its document, and
\* each stored row has exactly one url, whether its token string came from the
\* server or from the client-side fallback.
C12_FailuresIsolated ==
    /\ \A g \in DOMAIN generated :
          LET call == generated[g]
          IN /\ Len(call.secureUrls) = Len(call.documents) - Cardinality(call.rejected)
             /\ [k \in DOMAIN call.secureUrls |-> call.secureUrls[k].documentId]
                    = Accepted(call)
             /\ \A k \in DOMAIN call.secureUrls :
                    \E t \in TokenIds :
                        /\ tokens[t].token = call.secureUrls[k].secureUrl.token
                        /\ tokens[t].document_id = call.secureUrls[k].documentId
    /\ \A t \in TokenIds : Cardinality(UrlsOf(t)) = 1

\* Three documents, the second rejected: two urls, for the first and the third,
\* one with a client-side token and one with a server token.
C12_Witness ==
    \E g \in DOMAIN generated :
        LET call == generated[g]
        IN /\ Len(call.documents) = 3
           /\ call.rejected = {2}
           /\ Len(call.secureUrls) = 2
           /\ call.secureUrls[1].documentId = call.documents[1]
           /\ call.secureUrls[2].documentId = call.documents[3]
           /\ call.secureUrls[1].secureUrl.token.src = "client"
           /\ call.secureUrls[2].secureUrl.token.src = "server"

\* Calls c and d were given the same token string and claimed email and read
\* the same row at the same time.
SameQuestion(c, d) ==
    /\ calls[c].token = calls[d].token
    /\ calls[c].attemptedEmail = calls[d].attemptedEmail
    /\ calls[c].tokenData = calls[d].tokenData
    /\ calls[c].now = calls[d].now

\* No select or update of call c has thrown.
NoSystemError(c) == calls[c].result.reason # "system_error"

\* C13: the step in which a call's logDownloadAttempt ends, whether the insert
\* was performed, returned an error or threw, moves the call to the point it had
\* chosen before logging, with the result it had chosen, and writes no token
\* row; and two returned calls that asked the same question of the same row
\* have the same valid flag and reason, whatever became of their audit rows
\* (calls in which a select or an update threw set aside).
C13_LoggingNeverDecides ==
    /\ [](\A c, d \in CallIds :
            (Returned(c) /\ Returned(d) /\ SameQuestion(c, d)
                /\ NoSystemError(c) /\ NoSystemError(d))
            => calls[c].result = calls[d].result)
    /\ [][\A c \in CallIds :
            (calls[c].pc = "log" /\ calls'[c] # calls[c])
            => /\ calls'[c] = [calls[c] EXCEPT !.pc = calls[c].next]
               /\ tokens' = tokens]_vars

\* Two calls asked the same question; the audit insert of one failed and left
\* no row, the other's row is there; both returned valid.
C13_Witness ==
    \E c, d \in CallIds :
        /\ Returned(c) /\ Returned(d) /\ SameQuestion(c, d)
        /\ calls[c].result.valid /\ calls[d].result.valid
        /\ AttemptsBy(c) = {}
        /\ AttemptsBy(d) # {}

\* Call c, about to write the count of row t, returns valid in this step.
CountedBy(c, t) ==
    /\ calls[c].pc = "increment"
    /\ calls[c].tokenData.id = t
    /\ calls'[c].pc = "done"
    /\ calls'[c].result.valid

\* C14: no step lowers a row's download_count, and a step that changes it is
\* the count update of a call that returns valid.
C14_CountNeverDecreases ==
    [][\A t \in TokenIds :
        /\ tokens'[t].download_count >= tokens[t].download_count
        /\ tokens'[t].download_count # tokens[t].download_count
              => \E c \in CallIds : CountedBy(c, t)]_vars

\* The second half of C14 alone: download_count changes in no other step.
C14_ChangedOnlyByValidCalls ==
    [][\A t \in TokenIds :
        tokens'[t].download_count # tokens[t].download_count
            => \E c \in CallIds : CountedBy(c, t)]_vars

\* A datastore request of call c throws in this step: its select (the call
\* begins with it), its deactivating update or its count update.
Threw(c) ==
    IF c \in DOMAIN calls
    THEN Deactivate(c, "throw") \/ Increment(c, "throw")
    ELSE \E token \in TokenStrings, attemptedEmail \in AttemptedEmails :
            Lookup(MaxCalls, token, attemptedEmail, "throw")

\* The audit rows of call c that record a system error.
SystemErrorsBy(c) ==
    {i \in AttemptsBy(c) : attempts[i].failure_reason = ReasonSystem}

\* The audit rows of call c that record a success.
SuccessesBy(c) == {i \in AttemptsBy(c) : attempts[i].success}

\* C15: when a select or an update of a verifyDownloadToken call throws, the
\* call goes to one logDownloadAttempt of (null, 'System error') and from there
\* returns valid = false with the system-error reason; it logs at most one such
\* row, and a call that has a system-error reason never has valid = true, its
\* success row in the audit log notwithstanding.
C15_ThrowReturnsFailure ==
    /\ [](\A c \in CallIds :
            calls[c].result.reason = "system_error"
            => /\ ~calls[c].result.valid
               /\ Cardinality(SystemErrorsBy(c)) <= 1
               /\ calls[c].pc \in {"log", "done"}
               /\ calls[c].pc = "log" => calls[c].next = "done")
    /\ [][\A c \in DOMAIN calls' :
            Threw(c) => /\ calls'[c].pc = "log"
                        /\ calls'[c].log = LogArgs(NullId, FALSE, ReasonSystem)
                        /\ calls'[c].next = "done"
                        /\ calls'[c].result = Result(FALSE, "system_error")]_vars

\* A call logged its success, its count update threw, it logged the system
\* error and returned valid = false.
C15_Witness ==
    \E c \in CallIds :
        /\ Returned(c)
        /\ SuccessesBy(c) # {}
        /\ SystemErrorsBy(c) # {}
        /\ calls[c].result = Result(FALSE, "system_error")

\* The requestNewDownloadLinks call that returns in this step.
RequestReturns == Len(requests') = Len(requests) + 1

LastRequest == requests'[Len(requests')]

\* The row the audit log gains in this step.
LastAttempt == attempts'[Len(attempts')]

\* C16: a requestNewDownloadLinks call always returns and leaves
\* secure_download_tokens as it was, rows and fields; when the datastore
\* performs its insert the call returns true and download_attempts gains
\* exactly one row: token_id null, success false, the email trimmed and
\* lower-cased, a failure_reason that ends with the order id; otherwise the
\* audit log is unchanged.
C16_RequestOnlyLogs ==
    [][RequestReturns =>
        /\ tokens' = tokens
        /\ LastRequest.returned \in BOOLEAN
        /\ IF faults' = faults
           THEN /\ LastRequest.returned
                /\ Len(attempts') = Len(attempts) + 1
                /\ SubSeq(attempts', 1, Len(attempts)) = attempts
                /\ LastAttempt.token_id = NullId
                /\ ~LastAttempt.success
                /\ LastAttempt.attempted_email = Normalize(LastRequest.recipientEmail)
                /\ LastAttempt.failure_reason =
                      "New download links requested for order "
                          \o ToString(LastRequest.orderId)
           ELSE attempts' = attempts]_vars

\* A request made with an email that is not in normal form has returned true
\* and its row is in the audit log, while a token exists.
C16_Witness ==
    /\ Len(requests) = 1
    /\ requests[1].returned
    /\ Normalize(requests[1].recipientEmail) # requests[1].recipientEmail
    /\ tokens # << >>
    /\ \E i \in DOMAIN attempts :
          /\ attempts[i].by = NullId
          /\ attempts[i].token_id = NullId
          /\ attempts[i].attempted_email = Normalize(requests[1].recipientEmail)

\* The columns of a row that are set when it is inserted and never again.
Fixed(row) ==
    [token |-> row.token, document_id |-> row.document_id,
     recipient_email |-> row.recipient_email, order_id |-> row.order_id,
     expires_at |-> row.expires_at, max_downloads |-> row.max_downloads]

\* C17: no step of any operation removes a row of secure_download_tokens or
\* changes the token string, document_id, recipient_email, order_id, expires_at
\* or max_downloads of a row that exists.
C17_CreationFieldsFixed ==
    [][/\ Len(tokens') >= Len(tokens)
       /\ \A t \in TokenIds :
            /\ tokens'[t].id = tokens[t].id
            /\ Fixed(tokens'[t]) = Fixed(tokens[t])]_vars

\* A second generateSecureDownloadTokens call has added a row, a link request
\* was made, and the first row has been downloaded once and deactivated.
C17_Witness ==
    /\ Len(generated) = 2
    /\ Len(tokens) = 2
    /\ Len(requests) = 1
    /\ tokens[1].download_count = 1
    /\ ~tokens[1].is_active

\* A revokeDownloadToken call on row t has returned true.
RevokeSucceeded(t) ==
    \E r \in DOMAIN revokes : revokes[r].tokenId = t /\ revokes[r].returned

\* Call c, which read row t, returns valid in this step.
ReturnsValid(c, t) ==
    /\ calls[c].tokenData.id = t
    /\ calls[c].pc # "done"
    /\ calls'[c].pc = "done"
    /\ calls'[c].result.valid

\* C18: from the state in which revokeDownloadToken(t) has returned true on,
\* no step changes the download_count of row t and in no step does a
\* verifyDownloadToken call that read row t return valid, the calls that ran
\* their select before the revoke included.
C18_RevokeStopsDownloads ==
    [][\A t \in TokenIds :
        RevokeSucceeded(t)
        => /\ tokens'[t].download_count = tokens[t].download_count
           /\ \A c \in CallIds : ~ReturnsValid(c, t)]_vars

\* The part of C18 about calls that begin after the revoke returned: their
\* select does not find the row.
C18_LaterCallsMiss ==
    [][Len(calls') > Len(calls) =>
        \A t \in TokenIds :
            (RevokeSucceeded(t) /\ tokens[t].token = Begun.token)
            => Begun.tokenData.id = NullId]_vars

\* The rows this step adds to secure_download_tokens.
NewTokenIds == (DOMAIN tokens') \ TokenIds

\* C19: a row enters secure_download_tokens with is_active = true; no step sets
\* the is_active of a row from false to true; and the select of a call that
\* begins while the row of its token string is inactive resolves no row.
C19_ActiveMonotone ==
    [][/\ \A t \in NewTokenIds : tokens'[t].is_active
       /\ \A t \in TokenIds : ~tokens[t].is_active => ~tokens'[t].is_active
       /\ Len(calls') > Len(calls) =>
            \A t \in TokenIds :
                (tokens[t].token = Begun.token /\ ~tokens[t].is_active)
                => Begun.tokenData.id = NullId]_vars

\* With no failed request, two calls presented the token string of a row that
\* is revoked, and neither resolved it.
C19_Witness ==
    /\ faults = 0
    /\ \E t \in TokenIds :
          /\ ~tokens[t].is_active
          /\ RevokeSucceeded(t)
          /\ Len(calls) = 2
          /\ \A c \in CallIds :
                /\ calls[c].token = tokens[t].token
                /\ ~Resolved(c)
                /\ Returned(c)

\* The audit rows that record a success for row t.
SuccessRows(t) ==
    {i \in DOMAIN attempts : attempts[i].token_id = t /\ attempts[i].success}

\* The first half of C20: download_count never exceeds the success rows.
C20_CountAtMostAudit ==
    \A t \in TokenIds : tokens[t].download_count <= Cardinality(SuccessRows(t))

\* The second half of C20: with no call in flight the two numbers are equal.
C20_CountEqualsAuditAtRest ==
    AllReturned =>
        \A t \in TokenIds : tokens[t].download_count = Cardinality(SuccessRows(t))

\* C20: in every reachable state the download_count of every row is at most
\* the number of success rows of download_attempts that reference it, and in
\* every state in which every verifyDownloadToken call has returned the two
\* numbers are equal.
C20_CountMatchesAudit ==
    \A t \in TokenIds :
        /\ tokens[t].download_count <= Cardinality(SuccessRows(t))
        /\ AllReturned => tokens[t].download_count = Cardinality(SuccessRows(t))

====
